---------------------------- MODULE Spec2Model ----------------------------
(***************************************************************************)
(* Model of the benchmark-report tools of GraficosCompararSearch:          *)
(*   criar_csv.py       parse_data (flat mode)                             *)
(*   comparasolucao.py  parse_data (grouped mode)                          *)
(*   graficoEscolha.py  the interactive selection of problems              *)
(*                                                                         *)
(* A Python str is a sequence of one-character strings.  The Python        *)
(* built-ins the parsers call (strip, split, replace, endswith, int,       *)
(* float) are operators that compute what the built-in computes on such    *)
(* a sequence.  A float is kept exactly, as mantissa * 10^exponent, or as  *)
(* one of inf / -inf / nan.                                                *)
(***************************************************************************)
EXTENDS Integers, Sequences, FiniteSets, TLC

(***************************************************************************)
(* Python str built-ins                                                    *)
(***************************************************************************)

\* str.isspace() of one character (the ASCII whitespace str.strip() removes)
IsSpace(c) == c \in {" ", "\t", "\n", "\r"}

RECURSIVE LStrip(_)
\* str.lstrip()
LStrip(s) == IF s # <<>> /\ IsSpace(Head(s)) THEN LStrip(Tail(s)) ELSE s

RECURSIVE RStrip(_)
\* str.rstrip()
RStrip(s) ==
    IF s # <<>> /\ IsSpace(s[Len(s)]) THEN RStrip(SubSeq(s, 1, Len(s) - 1)) ELSE s

\* str.strip()
Strip(s) == RStrip(LStrip(s))

\* s.endswith(suffix)
EndsWith(s, suffix) ==
    /\ Len(s) >= Len(suffix)
    /\ SubSeq(s, Len(s) - Len(suffix) + 1, Len(s)) = suffix

\* s.startswith(prefix)
StartsWith(s, prefix) ==
    /\ Len(s) >= Len(prefix)
    /\ SubSeq(s, 1, Len(prefix)) = prefix

RECURSIVE SplitAcc(_, _, _)
\* s.split(sep) for a one-character sep: cur is the field being read
SplitAcc(s, sep, cur) ==
    IF s = <<>> THEN <<cur>>
    ELSE IF Head(s) = sep THEN <<cur>> \o SplitAcc(Tail(s), sep, <<>>)
    ELSE SplitAcc(Tail(s), sep, Append(cur, Head(s)))

\* s.split(sep): always at least one field
Split(s, sep) == SplitAcc(s, sep, <<>>)

RECURSIVE Replace(_, _, _)
\* s.replace(old, new), old non-empty: leftmost non-overlapping occurrences
Replace(s, old, new) ==
    IF s = <<>> THEN <<>>
    ELSE IF StartsWith(s, old)
         THEN new \o Replace(SubSeq(s, Len(old) + 1, Len(s)), old, new)
    ELSE <<Head(s)>> \o Replace(Tail(s), old, new)

RECURSIVE SplitWsAcc(_, _)
\* s.split() without argument: the maximal runs of non-whitespace
SplitWsAcc(s, cur) ==
    IF s = <<>> THEN (IF cur = <<>> THEN <<>> ELSE <<cur>>)
    ELSE IF IsSpace(Head(s))
         THEN (IF cur = <<>> THEN <<>> ELSE <<cur>>) \o SplitWsAcc(Tail(s), <<>>)
    ELSE SplitWsAcc(Tail(s), Append(cur, Head(s)))

\* s.split()
SplitWs(s) == SplitWsAcc(s, <<>>)

RECURSIVE Join(_, _)
\* sep.join(parts)
Join(parts, sep) ==
    IF parts = <<>> THEN <<>>
    ELSE IF Len(parts) = 1 THEN parts[1]
    ELSE parts[1] \o sep \o Join(Tail(parts), sep)

(***************************************************************************)
(* Python int() and float()                                                *)
(***************************************************************************)

Digits == {"0", "1", "2", "3", "4", "5", "6", "7", "8", "9"}

DigitVal(c) ==
    CASE c = "0" -> 0 [] c = "1" -> 1 [] c = "2" -> 2 [] c = "3" -> 3
      [] c = "4" -> 4 [] c = "5" -> 5 [] c = "6" -> 6 [] c = "7" -> 7
      [] c = "8" -> 8 [] c = "9" -> 9

\* A digit string as int() and float() accept it: digits, with single
\* underscores allowed between two digits.
IsDigitString(s) ==
    /\ s # <<>>
    /\ s[1] \in Digits
    /\ s[Len(s)] \in Digits
    /\ \A i \in 1..Len(s) : s[i] \in Digits \cup {"_"}
    /\ \A i \in 1..(Len(s) - 1) : ~(s[i] = "_" /\ s[i + 1] = "_")

RECURSIVE NatOfAcc(_, _)
NatOfAcc(s, acc) ==
    IF s = <<>> THEN acc
    ELSE IF Head(s) = "_" THEN NatOfAcc(Tail(s), acc)
    ELSE NatOfAcc(Tail(s), 10 * acc + DigitVal(Head(s)))

\* The value of a digit string
NatOf(s) == NatOfAcc(s, 0)

\* An optional sign split off: <<negative, rest>>
Signed(s) ==
    IF s # <<>> /\ s[1] = "-" THEN <<TRUE, Tail(s)>>
    ELSE IF s # <<>> /\ s[1] = "+" THEN <<FALSE, Tail(s)>>
    ELSE <<FALSE, s>>

\* int(s): [ok |-> TRUE, val |-> n], or [ok |-> FALSE] where int raises
\* ValueError.  Surrounding whitespace and one sign are accepted.
PyInt(s) ==
    LET t == Signed(Strip(s))
    IN  IF IsDigitString(t[2])
        THEN [ok |-> TRUE, val |-> IF t[1] THEN 0 - NatOf(t[2]) ELSE NatOf(t[2])]
        ELSE [ok |-> FALSE, val |-> 0]

\* str.lower() of one character, for the letters float() reads
Lower(c) ==
    CASE c = "I" -> "i" [] c = "N" -> "n" [] c = "F" -> "f" [] c = "T" -> "t"
      [] c = "Y" -> "y" [] c = "A" -> "a" [] c = "E" -> "e" [] OTHER -> c

LowerStr(s) == [i \in 1..Len(s) |-> Lower(s[i])]

PosInf == [k |-> "inf", m |-> 1, e |-> 0]
NegInf == [k |-> "inf", m |-> -1, e |-> 0]
NaN == [k |-> "nan", m |-> 0, e |-> 0]

RECURSIVE Normal(_, _)
\* The float m * 10^e in normal form: no trailing zero in m, and 0 is 0 * 10^0
Normal(m, e) ==
    IF m = 0 THEN [k |-> "fin", m |-> 0, e |-> 0]
    ELSE IF m % 10 = 0 THEN Normal(m \div 10, e + 1)
    ELSE [k |-> "fin", m |-> m, e |-> e]

\* The position of the first element of s that is in set cs, or 0
FirstIn(s, cs) ==
    IF \E i \in 1..Len(s) : s[i] \in cs
    THEN CHOOSE i \in 1..Len(s) : s[i] \in cs /\ \A j \in 1..(i - 1) : s[j] \notin cs
    ELSE 0

\* float(s): [ok |-> TRUE, val |-> f], or [ok |-> FALSE] where float raises
\* ValueError.  Grammar: [sign] (inf | infinity | nan | decimal[exponent]),
\* letters in either case.  Values stay exact (inputs are far from the
\* range and precision limits of a double).
PyFloat(s) ==
    LET t == Signed(LowerStr(Strip(s)))
        neg == t[1]
        body == t[2]
        bad == [ok |-> FALSE, val |-> NaN]
        ePos == FirstIn(body, {"e"})
        mant == IF ePos = 0 THEN body ELSE SubSeq(body, 1, ePos - 1)
        expo == IF ePos = 0 THEN <<>> ELSE Signed(SubSeq(body, ePos + 1, Len(body)))
        dot == FirstIn(mant, {"."})
        ip == IF dot = 0 THEN mant ELSE SubSeq(mant, 1, dot - 1)
        fp == IF dot = 0 THEN <<>> ELSE SubSeq(mant, dot + 1, Len(mant))
        fdigits == SelectSeq(fp, LAMBDA c : c # "_")
        mantOk == /\ ip = <<>> \/ IsDigitString(ip)
                  /\ fp = <<>> \/ IsDigitString(fp)
                  /\ ~(ip = <<>> /\ fp = <<>>)
        expOk == ePos = 0 \/ IsDigitString(expo[2])
        ev == IF ePos = 0 THEN 0
              ELSE IF expo[1] THEN 0 - NatOf(expo[2]) ELSE NatOf(expo[2])
        mv == NatOf(ip \o fdigits)
    IN  IF body \in {<<"i", "n", "f">>, <<"i", "n", "f", "i", "n", "i", "t", "y">>}
        THEN [ok |-> TRUE, val |-> IF neg THEN NegInf ELSE PosInf]
        ELSE IF body = <<"n", "a", "n">> THEN [ok |-> TRUE, val |-> NaN]
        ELSE IF mantOk /\ expOk
        THEN [ok |-> TRUE,
              val |-> Normal(IF neg THEN 0 - mv ELSE mv, ev - Len(fdigits))]
        ELSE bad


(***************************************************************************)
(* The report text                                                         *)
(***************************************************************************)

\* The unit words of a data line, as the flat parser removes them
W_NODES == <<" ", "n", "o", "d", "e", "s">>
W_GOAL == <<" ", "g", "o", "a", "l">>
W_COST == <<" ", "c", "o", "s", "t">>
W_ACTIONS == <<" ", "a", "c", "t", "i", "o", "n", "s">>
INF == <<"i", "n", "f">>

\* current_algorithm = None
None == <<"None">>

\* Truthy without the test for None
TruthyUnlessEmpty(x) == x # <<>>

\* bool(x) of a str-or-None value, as `current_algorithm and line` tests it
Truthy(x) == x # None /\ x # <<>>

DigitChar(d) ==
    CASE d = 0 -> "0" [] d = 1 -> "1" [] d = 2 -> "2" [] d = 3 -> "3"
      [] d = 4 -> "4" [] d = 5 -> "5" [] d = 6 -> "6" [] d = 7 -> "7"
      [] d = 8 -> "8" [] d = 9 -> "9"

RECURSIVE DecPlain(_)
\* A natural number in decimal
DecPlain(n) ==
    IF n < 10 THEN <<DigitChar(n)>>
    ELSE Append(DecPlain(n \div 10), DigitChar(n % 10))

RECURSIVE Dec(_)
\* A natural number as the report prints counts: "1,696"
Dec(n) ==
    IF n < 1000 THEN DecPlain(n)
    ELSE Dec(n \div 1000) \o <<",">>
         \o <<DigitChar((n \div 100) % 10), DigitChar((n \div 10) % 10), DigitChar(n % 10)>>

\* A data line of the report:
\*   "  <nodes> nodes | <goal> goal | <cost> cost | <actions> actions | <label>"
\* nodes, goal, actions are numbers; cost is the text of the cost column
Render(nodes, goal, cost, actions, label) ==
    <<" ", " ">> \o Dec(nodes) \o W_NODES \o <<" ", "|", " ">>
    \o Dec(goal) \o W_GOAL \o <<" ", "|", " ">>
    \o cost \o W_COST \o <<" ", "|", " ">>
    \o Dec(actions) \o W_ACTIONS \o <<" ", "|", " ">> \o label

(***************************************************************************)
(* criar_csv.py: parse_data, flat mode                                     *)
(***************************************************************************)

\* MinFields one too small
MinFieldsOffByOne == 5 - 1

\* if len(parts) >= 5
MinFields == 5

\* int(field.replace(unit, '').strip().replace(',', ''))
FlatInt(field, unit) == PyInt(Replace(Strip(Replace(field, unit, <<>>)), <<",">>, <<>>))

\* parts[2].replace(' cost','').strip().split(): the tokens of the cost field
FlatCostTokens(field) == SplitWs(Strip(Replace(field, W_COST, <<>>)))

\* float(cost) if cost != 'inf' else float('inf')
CostOf(token) == IF token # INF THEN PyFloat(token) ELSE [ok |-> TRUE, val |-> PosInf]

\* problem = parts[4].strip()
ProblemOf(parts) == Strip(parts[5])

NoRecord == [nodes |-> 0, goal |-> 0, cost |-> NaN, actions |-> 0, problem |-> <<>>]

\* The body of `if len(parts) >= 5: try: ...` for one stripped line, in
\* the order Python evaluates it.  kind is
\*   "skip"        too few fields
\*   "ValueError"  int() or float() raised: caught, the line is passed over
\*   "IndexError"  split()[0] on a cost field without token, or parts[4] on
\*                 a list of four: not caught by `except ValueError`
\*   "record"      rec is the dict appended (without 'search')
FlatParseLine(line) ==
    LET parts == Split(line, "|")
        nodes == FlatInt(parts[1], W_NODES)
        goal == FlatInt(parts[2], W_GOAL)
        toks == FlatCostTokens(parts[3])
        cost == CostOf(toks[1])
        actions == FlatInt(parts[4], W_ACTIONS)
    IN  IF Len(parts) < MinFields THEN [kind |-> "skip", rec |-> NoRecord]
        ELSE IF ~nodes.ok THEN [kind |-> "ValueError", rec |-> NoRecord]
        ELSE IF ~goal.ok THEN [kind |-> "ValueError", rec |-> NoRecord]
        ELSE IF toks = <<>> THEN [kind |-> "IndexError", rec |-> NoRecord]
        ELSE IF ~cost.ok THEN [kind |-> "ValueError", rec |-> NoRecord]
        ELSE IF ~actions.ok THEN [kind |-> "ValueError", rec |-> NoRecord]
        ELSE IF Len(parts) < 5 THEN [kind |-> "IndexError", rec |-> NoRecord]
        ELSE [kind |-> "record",
              rec |-> [nodes |-> nodes.val, goal |-> goal.val, cost |-> cost.val,
                       actions |-> actions.val, problem |-> ProblemOf(parts)]]

\* The dict appended to all_data: the parsed fields and 'search'
FlatRecord(rec, algorithm) ==
    [nodes |-> rec.nodes, goal |-> rec.goal, cost |-> rec.cost,
     actions |-> rec.actions, problem |-> rec.problem, search |-> algorithm]

\* list.insert(0, x) in the place of list.append(x)
EmitInFront(list, x) == <<x>> \o list

\* list.append
Emit(list, x) == Append(list, x)

\* IsHeader tested after the field count: a line of five fields is data
IsHeaderUnlessData(line) == EndsWith(line, <<":">>) /\ Len(Split(line, "|")) < MinFields

\* line.endswith(':')
IsHeader(line) == EndsWith(line, <<":">>)

\* line in the place of line[:-1]
HeaderNameWithColon(line) == line

\* line[:-1]
HeaderName(line) == SubSeq(line, 1, Len(line) - 1)

(***************************************************************************)
(* comparasolucao.py: parse_data, grouped mode                             *)
(***************************************************************************)

\* int(field.strip().replace(',', ''))
GroupedInt(field) == PyInt(Replace(Strip(field), <<",">>, <<>>))

\* parts[2].strip().split()
GroupedCostTokens(field) == SplitWs(Strip(field))

\* The body of `if len(parts) >= 5: try: ...` of the grouped parser
GroupedParseLine(line) ==
    LET parts == Split(line, "|")
        nodes == GroupedInt(parts[1])
        goal == GroupedInt(parts[2])
        toks == GroupedCostTokens(parts[3])
        cost == CostOf(toks[1])
        actions == GroupedInt(parts[4])
    IN  IF Len(parts) < MinFields THEN [kind |-> "skip", rec |-> NoRecord]
        ELSE IF ~nodes.ok THEN [kind |-> "ValueError", rec |-> NoRecord]
        ELSE IF ~goal.ok THEN [kind |-> "ValueError", rec |-> NoRecord]
        ELSE IF toks = <<>> THEN [kind |-> "IndexError", rec |-> NoRecord]
        ELSE IF ~cost.ok THEN [kind |-> "ValueError", rec |-> NoRecord]
        ELSE IF ~actions.ok THEN [kind |-> "ValueError", rec |-> NoRecord]
        ELSE IF Len(parts) < 5 THEN [kind |-> "IndexError", rec |-> NoRecord]
        ELSE [kind |-> "record",
              rec |-> [nodes |-> nodes.val, goal |-> goal.val, cost |-> cost.val,
                       actions |-> actions.val, problem |-> ProblemOf(parts)]]

\* algorithms[current_algorithm] = []
OpenBucket(algos, name) ==
    [k \in DOMAIN algos \cup {name} |-> IF k = name THEN <<>> ELSE algos[k]]

\* algorithms[current_algorithm].append(rec)
AddToBucket(algos, name, rec) == [algos EXCEPT ![name] = Emit(@, rec)]

(***************************************************************************)
(* graficoEscolha.py: the selection of problems                            *)
(***************************************************************************)

RECURSIVE Unique(_)
\* Series.unique(): the distinct values in the order of first appearance
Unique(col) ==
    IF col = <<>> THEN <<>>
    ELSE LET front == Unique(SubSeq(col, 1, Len(col) - 1))
             x == col[Len(col)]
         IN  IF \E i \in 1..Len(front) : front[i] = x THEN front ELSE Append(front, x)

\* [int(x.strip()) - 1 for x in selected_problems_str.split(",")]: the
\* conversions of the entries, in order
EntryInts(str) ==
    LET entries == Split(str, ",")
    IN  [i \in 1..Len(entries) |-> PyInt(Strip(entries[i]))]

\* The filter `-len(available_problems) <= i < len(available_problems)`: a
\* negative i indexes from the end of the list, as Python does
SelectWrapping(available, numbers) ==
    LET n == Len(available)
        kept == SelectSeq(numbers, LAMBDA i : 0 - n <= i /\ i < n)
    IN  [k \in 1..Len(kept) |->
            IF kept[k] >= 0 THEN available[kept[k] + 1] ELSE available[n + kept[k] + 1]]

\* [available_problems[i] for i in numbers if 0 <= i < len(available_problems)]
\* (available[i + 1] is Python's available_problems[i])
SelectInRange(available, numbers) ==
    LET kept == SelectSeq(numbers, LAMBDA i : 0 <= i /\ i < Len(available))
    IN  [k \in 1..Len(kept) |-> available[kept[k] + 1]]

(***************************************************************************)
(* State                                                                   *)
(***************************************************************************)

VARIABLES
    lines,                \* data.strip().split('\n'), the list both loops walk
    fi,                   \* criar_csv: index of the next line of the loop
    current_algorithm,    \* criar_csv: current_algorithm
    all_data,             \* criar_csv: all_data
    origin,               \* history: origin[k] is the line all_data[k] came from
    pcF,                  \* criar_csv: "loop", "returned" or "IndexError"
    gi,                   \* comparasolucao: index of the next line of the loop
    current_algorithm_g,  \* comparasolucao: current_algorithm
    algorithms,           \* comparasolucao: algorithms
    pcG,                  \* comparasolucao: "loop", "returned", "IndexError"
                          \* or "KeyError"
    problem_column,       \* graficoEscolha: df['problem']
    available_problems,   \* graficoEscolha: available_problems
    selected_problems_str,     \* graficoEscolha: the line typed at the prompt
    selected_problem_numbers,  \* graficoEscolha: selected_problem_numbers
    selected_problems,    \* graficoEscolha: selected_problems
    chart_i,              \* graficoEscolha: index of the next problem to chart
    charted,              \* graficoEscolha: the problems charts were drawn for
    pcE                   \* graficoEscolha: "off", "load", "prompt", "parse",
                          \* "filter", "chart", "done" or "ValueError"

flatVars == <<fi, current_algorithm, all_data, origin, pcF>>
groupedVars == <<gi, current_algorithm_g, algorithms, pcG>>
toolVars == <<problem_column, available_problems, selected_problems_str,
              selected_problem_numbers, selected_problems, chart_i, charted, pcE>>
parserVars == <<lines, flatVars, groupedVars>>
vars == <<parserVars, toolVars>>

(***************************************************************************)
(* Input texts                                                             *)
(***************************************************************************)

\* Longest text of sections, in lines
MaxLines == 4
\* Longest text of malformed lines, in lines
MaxMalformedLines == 3
\* Longest text of edge lines, in lines
MaxEdgeLines == 3

\* for line in data.strip().split('\n'), where data is '\n'.join(raw) and no
\* line of raw holds a line break: strip() removes the blank lines at both
\* ends, the indentation of the first line left and the trailing space of
\* the last; a text of blank lines only splits into one empty line.
LinesOf(raw) ==
    LET full == {i \in 1..Len(raw) : Strip(raw[i]) # <<>>}
        first == CHOOSE i \in full : \A j \in full : i <= j
        last == CHOOSE i \in full : \A j \in full : j <= i
    IN  IF full = {} THEN << <<>> >>
        ELSE [k \in 1..(last - first + 1) |->
                LET l == raw[first + k - 1]
                    l1 == IF k = 1 THEN LStrip(l) ELSE l
                IN  IF k = last - first + 1 THEN RStrip(l1) ELSE l1]

RECURSIVE TextsUpTo(_, _)
\* The texts of at most n lines over a set of lines
TextsUpTo(catalogue, n) ==
    IF n = 0 THEN {<<>>}
    ELSE LET shorter == TextsUpTo(catalogue, n - 1)
         IN  shorter \cup {Append(t, l) : t \in shorter, l \in catalogue}

\* Well-formed data lines, by their values
Row_X == [nodes |-> 1696, goal |-> 190, cost |-> 10, actions |-> 204, label |-> <<"X">>]
Row_Y == [nodes |-> 5, goal |-> 2, cost |-> 3, actions |-> 4, label |-> <<"Y">>]
WellFormed == {Row_X, Row_Y}
RenderRow(w) == Render(w.nodes, w.goal, DecPlain(w.cost), w.actions, w.label)

\* "a:" and "b:"
H_a == <<"a", ":">>
H_b == <<"b", ":">>
\* "  1,696 nodes | 190 goal | 10 cost | 204 actions | X"
L_X == RenderRow(Row_X)
\* "  5 nodes | 2 goal | 3 cost | 4 actions | Y"
L_Y == RenderRow(Row_Y)
\* a data line without unit words
L_bare == <<"5", "|", "2", "|", "3", "|", "4", "|", "Y">>
\* a count that is no number: " x nodes|2 goal|3 cost|4 actions|Z"
L_badint == <<" ", "x">> \o W_NODES \o <<"|", "2">> \o W_GOAL \o <<"|", "3">> \o W_COST
            \o <<"|", "4">> \o W_ACTIONS \o <<"|", "Z">>
\* a cost that is no number: "  5 nodes | 2 goal | 3x cost | 4 actions | Z"
L_badcost == Render(5, 2, <<"3", "x">>, 4, <<"Z">>)
\* a cost field holding only the unit word
L_nocost == Render(5, 2, <<>>, 4, <<"Z">>)
\* an empty cost field, without unit words
L_bare_nocost == <<"5", "|", "2", "|", "|", "4", "|", "Z">>
\* four fields
L_4f == <<" ", "5">> \o W_NODES \o <<"|", "2">> \o W_GOAL \o <<"|", "3">> \o W_COST
        \o <<"|", "4">> \o W_ACTIONS
\* six fields, with and without unit words
L_6f == Render(5, 2, <<"3">>, 4, <<"X", "|", "Z">>)
L_bare6 == <<"5", "|", "2", "|", "3", "|", "4", "|", "X", "|", "Z">>
L_blank == <<" ">>

\* Texts of sections: two headers, data lines with and without unit words,
\* blank lines
SectionLines == {H_a, H_b, L_X, L_bare, L_blank}

\* Texts of malformed lines in one section
MalformedLines ==
    {H_a, L_Y, L_badint, L_badcost, L_nocost, L_bare_nocost, L_4f, L_6f, L_bare6}

\* a header without a name: ":"
H_empty == <<":">>
\* a cost of inf: "  5 nodes | 2 goal | inf cost | 4 actions | X" and "5|2|inf|4|X"
L_inf == Render(5, 2, INF, 4, <<"X">>)
L_bare_inf == <<"5", "|", "2", "|">> \o INF \o <<"|", "4", "|", "X">>
\* numbers below zero: "-5 nodes|2 goal|-3 cost|4 actions|X" and "-5|2|-3|4|X"
L_neg == <<"-", "5">> \o W_NODES \o <<"|", "2">> \o W_GOAL \o <<"|", "-", "3">> \o W_COST
         \o <<"|", "4">> \o W_ACTIONS \o <<"|", "X">>
L_bare_neg == <<"-", "5", "|", "2", "|", "-", "3", "|", "4", "|", "X">>
\* five fields and a colon at the end: "5|2|3|4|X:"
L_colon == <<"5", "|", "2", "|", "3", "|", "4", "|", "X", ":">>

\* Texts of edge lines: a header without a name, costs of inf, numbers below
\* zero, a data line that ends with a colon
EdgeLines == {H_a, H_empty, L_inf, L_bare_inf, L_neg, L_bare_neg, L_colon, L_bare}

\* The tool is not running
ToolOff ==
    /\ problem_column = <<>>
    /\ available_problems = <<>>
    /\ selected_problems_str = <<>>
    /\ selected_problem_numbers = <<>>
    /\ selected_problems = <<>>
    /\ chart_i = 1
    /\ charted = <<>>
    /\ pcE = "off"

\* The state both parsers start their loop in, on the text '\n'.join(raw)
InitOn(raw) ==
    /\ lines = LinesOf(raw)
    /\ fi = 1
    /\ current_algorithm = None
    /\ all_data = <<>>
    /\ origin = <<>>
    /\ pcF = "loop"
    /\ gi = 1
    /\ current_algorithm_g = None
    /\ algorithms = <<>>
    /\ pcG = "loop"

Init == ToolOff /\ \E t \in TextsUpTo(SectionLines, MaxLines) : InitOn(t)

InitMalformed == ToolOff /\ \E t \in TextsUpTo(MalformedLines, MaxMalformedLines) : InitOn(t)

InitEdge == ToolOff /\ \E t \in TextsUpTo(EdgeLines, MaxEdgeLines) : InitOn(t)

(***************************************************************************)
(* The parsers' steps                                                      *)
(***************************************************************************)

\* One iteration of the loop of criar_csv.parse_data
FlatStep ==
    /\ pcF = "loop"
    /\ fi <= Len(lines)
    /\ LET line == Strip(lines[fi])
           out == FlatParseLine(line)
       IN  IF IsHeader(line)
           THEN /\ current_algorithm' = HeaderName(line)
                /\ fi' = fi + 1
                /\ UNCHANGED <<all_data, origin, pcF>>
           ELSE IF Truthy(current_algorithm) /\ line # <<>>
           THEN CASE out.kind = "record" ->
                       /\ all_data' = Emit(all_data, FlatRecord(out.rec, current_algorithm))
                       /\ origin' = Emit(origin, fi)
                       /\ fi' = fi + 1
                       /\ UNCHANGED <<current_algorithm, pcF>>
                  [] out.kind = "IndexError" ->
                       /\ pcF' = "IndexError"
                       /\ UNCHANGED <<fi, current_algorithm, all_data, origin>>
                  [] OTHER ->
                       /\ fi' = fi + 1
                       /\ UNCHANGED <<current_algorithm, all_data, origin, pcF>>
           ELSE /\ fi' = fi + 1
                /\ UNCHANGED <<current_algorithm, all_data, origin, pcF>>
    /\ UNCHANGED <<lines, groupedVars, toolVars>>

\* return all_data
FlatReturn ==
    /\ pcF = "loop"
    /\ fi > Len(lines)
    /\ pcF' = "returned"
    /\ UNCHANGED <<lines, fi, current_algorithm, all_data, origin, groupedVars, toolVars>>

\* One iteration of the loop of comparasolucao.parse_data
GroupedStep ==
    /\ pcG = "loop"
    /\ gi <= Len(lines)
    /\ LET line == Strip(lines[gi])
           out == GroupedParseLine(line)
       IN  IF IsHeader(line)
           THEN /\ current_algorithm_g' = HeaderName(line)
                /\ algorithms' = OpenBucket(algorithms, HeaderName(line))
                /\ gi' = gi + 1
                /\ UNCHANGED pcG
           ELSE IF Truthy(current_algorithm_g) /\ line # <<>>
           THEN CASE out.kind = "record" /\ current_algorithm_g \in DOMAIN algorithms ->
                       /\ algorithms' = AddToBucket(algorithms, current_algorithm_g, out.rec)
                       /\ gi' = gi + 1
                       /\ UNCHANGED <<current_algorithm_g, pcG>>
                  [] out.kind = "record" /\ current_algorithm_g \notin DOMAIN algorithms ->
                       /\ pcG' = "KeyError"
                       /\ UNCHANGED <<gi, current_algorithm_g, algorithms>>
                  [] out.kind = "IndexError" ->
                       /\ pcG' = "IndexError"
                       /\ UNCHANGED <<gi, current_algorithm_g, algorithms>>
                  [] OTHER ->
                       /\ gi' = gi + 1
                       /\ UNCHANGED <<current_algorithm_g, algorithms, pcG>>
           ELSE /\ gi' = gi + 1
                /\ UNCHANGED <<current_algorithm_g, algorithms, pcG>>
    /\ UNCHANGED <<lines, flatVars, toolVars>>

\* return algorithms
GroupedReturn ==
    /\ pcG = "loop"
    /\ gi > Len(lines)
    /\ pcG' = "returned"
    /\ UNCHANGED <<lines, gi, current_algorithm_g, algorithms, flatVars, toolVars>>

Next == FlatStep \/ FlatReturn \/ GroupedStep \/ GroupedReturn

\* Texts of sections
Spec == Init /\ [][Next]_vars

\* Texts of malformed lines
SpecMalformed == InitMalformed /\ [][Next]_vars

\* Texts of edge lines
SpecEdge == InitEdge /\ [][Next]_vars


(***************************************************************************)
(* The selection tool's steps                                              *)
(***************************************************************************)

\* Most rows of output.csv
MaxRows == 2
\* Most entries typed at the prompt
MaxEntries == 2

\* The values of the 'problem' column
Labels == {<<"X">>, <<"Y">>}

\* What one entry of the typed list may be: "1", " 2 ", "0", "-1", "3", "x", ""
EntryTexts == {<<"1">>, <<" ", "2", " ">>, <<"0">>, <<"-", "1">>, <<"3">>, <<"x">>, <<>>}

\* The lines typed: one to MaxEntries entries separated by commas
TypedLines == {Join(t, <<",">>) : t \in TextsUpTo(EntryTexts, MaxEntries) \ {<<>>}}

\* No parser is running
ParsersOff ==
    /\ lines = <<>>
    /\ fi = 1
    /\ current_algorithm = None
    /\ all_data = <<>>
    /\ origin = <<>>
    /\ pcF = "off"
    /\ gi = 1
    /\ current_algorithm_g = None
    /\ algorithms = <<>>
    /\ pcG = "off"

\* graficoEscolha.py starts on an output.csv whose 'problem' column is col
InitEscolha ==
    /\ ParsersOff
    /\ \E col \in TextsUpTo(Labels, MaxRows) : problem_column = col
    /\ available_problems = <<>>
    /\ selected_problems_str = <<>>
    /\ selected_problem_numbers = <<>>
    /\ selected_problems = <<>>
    /\ chart_i = 1
    /\ charted = <<>>
    /\ pcE = "load"

\* df = pd.read_csv(...); available_problems = df['problem'].unique()
LoadProblems ==
    /\ pcE = "load"
    /\ available_problems' = Unique(problem_column)
    /\ pcE' = "prompt"
    /\ UNCHANGED <<parserVars, problem_column, selected_problems_str, selected_problem_numbers,
                   selected_problems, chart_i, charted>>

\* selected_problems_str = input(...)
ReadSelection ==
    /\ pcE = "prompt"
    /\ \E typed \in TypedLines : selected_problems_str' = typed
    /\ pcE' = "parse"
    /\ UNCHANGED <<parserVars, problem_column, available_problems, selected_problem_numbers,
                   selected_problems, chart_i, charted>>

\* selected_problem_numbers = [int(x.strip()) - 1 for x in ....split(",")]:
\* the first int() that raises ValueError ends the script
ParseSelection ==
    /\ pcE = "parse"
    /\ LET ints == EntryInts(selected_problems_str)
       IN  IF \A i \in 1..Len(ints) : ints[i].ok
           THEN /\ selected_problem_numbers' = [i \in 1..Len(ints) |-> ints[i].val - 1]
                /\ pcE' = "filter"
           ELSE /\ pcE' = "ValueError"
                /\ UNCHANGED selected_problem_numbers
    /\ UNCHANGED <<parserVars, problem_column, available_problems, selected_problems_str,
                   selected_problems, chart_i, charted>>

\* selected_problems = [available_problems[i] for i in ... if 0<=i<len(...)]
FilterSelection ==
    /\ pcE = "filter"
    /\ selected_problems' = SelectInRange(available_problems, selected_problem_numbers)
    /\ pcE' = "chart"
    /\ UNCHANGED <<parserVars, problem_column, available_problems, selected_problems_str,
                   selected_problem_numbers, chart_i, charted>>

\* create_grouped_problem_charts: one iteration of `for problem in
\* selected_problems`; a problem without rows is passed over
ChartProblem ==
    /\ pcE = "chart"
    /\ chart_i <= Len(selected_problems)
    /\ LET problem == selected_problems[chart_i]
           problem_df == SelectSeq(problem_column, LAMBDA x : x = problem)
       IN  charted' = IF Len(problem_df) = 0 THEN charted ELSE Append(charted, problem)
    /\ chart_i' = chart_i + 1
    /\ UNCHANGED <<parserVars, problem_column, available_problems, selected_problems_str,
                   selected_problem_numbers, selected_problems, pcE>>

\* the loop of create_grouped_problem_charts ends, and the script with it
ChartsDone ==
    /\ pcE = "chart"
    /\ chart_i > Len(selected_problems)
    /\ pcE' = "done"
    /\ UNCHANGED <<parserVars, problem_column, available_problems, selected_problems_str,
                   selected_problem_numbers, selected_problems, chart_i, charted>>

NextEscolha ==
    \/ LoadProblems
    \/ ReadSelection
    \/ ParseSelection
    \/ FilterSelection
    \/ ChartProblem
    \/ ChartsDone

\* The selection tool on an output.csv
SpecEscolha == InitEscolha /\ [][NextEscolha]_vars

(***************************************************************************)
(* Vocabulary of the properties                                            *)
(***************************************************************************)

\* Line j as the loops see it
LineAt(j) == Strip(lines[j])

\* The header lines before line j
HeadersBefore(j) == {i \in 1..(j - 1) : i <= Len(lines) /\ EndsWith(LineAt(i), <<":">>)}

\* The text before the colon of the last header line before line j, or None
SectionAt(j) ==
    LET hs == HeadersBefore(j)
        h == CHOOSE i \in hs : \A i2 \in hs : i2 <= i
        header == LineAt(h)
    IN  IF hs = {} THEN None ELSE SubSeq(header, 1, Len(header) - 1)

\* Line j is a non-empty, non-header line inside a section
DataLine(j) ==
    /\ LineAt(j) # <<>>
    /\ ~EndsWith(LineAt(j), <<":">>)
    /\ SectionAt(j) \notin {None, <<>>}

\* The names that head two blocks or more
RepeatedNames ==
    {SectionAt(j + 1) : j \in {i \in HeadersBefore(Len(lines) + 1) :
        \E i2 \in HeadersBefore(Len(lines) + 1) : i2 # i /\ LineAt(i2) = LineAt(i)}}

\* The lines of the blocks headed `name` that each parser takes as a record
FlatValidUnder(name) ==
    {j \in 1..Len(lines) :
        DataLine(j) /\ SectionAt(j) = name /\ FlatParseLine(LineAt(j)).kind = "record"}
GroupedValidUnder(name) ==
    {j \in 1..Len(lines) :
        DataLine(j) /\ SectionAt(j) = name /\ GroupedParseLine(LineAt(j)).kind = "record"}

\* The record a well-formed line stands for
ExpectedRecord(w) ==
    [nodes |-> w.nodes, goal |-> w.goal, cost |-> Normal(w.cost, 0),
     actions |-> w.actions, problem |-> w.label]

\* The flat loop is about to read a data line inside a section
FlatAtDataLine ==
    /\ pcF = "loop" /\ fi <= Len(lines)
    /\ LineAt(fi) # <<>> /\ ~EndsWith(LineAt(fi), <<":">>)
    /\ current_algorithm \notin {None, <<>>}

\* The grouped loop is about to read a data line inside a section
GroupedAtDataLine ==
    /\ pcG = "loop" /\ gi <= Len(lines)
    /\ LineAt(gi) # <<>> /\ ~EndsWith(LineAt(gi), <<":">>)
    /\ current_algorithm_g \notin {None, <<>>}

\* The number of '|'-separated fields of a line
FieldCount(line) == Cardinality({i \in 1..Len(line) : line[i] = "|"}) + 1

\* One of fields 0 to 3 of a line of five fields or more does not convert,
\* as the flat parser converts them
FlatConversionFails(line) ==
    LET parts == Split(line, "|")
    IN  /\ Len(parts) >= 5
        /\ \/ ~FlatInt(parts[1], W_NODES).ok
           \/ ~FlatInt(parts[2], W_GOAL).ok
           \/ FlatCostTokens(parts[3]) = <<>>
           \/ ~CostOf(FlatCostTokens(parts[3])[1]).ok
           \/ ~FlatInt(parts[4], W_ACTIONS).ok

\* Everything from field 4 to the end of the line, rejoined and trimmed
LabelFromField4(line) ==
    LET parts == Split(line, "|")
    IN  Strip(Join(SubSeq(parts, 5, Len(parts)), <<"|">>))

(***************************************************************************)
(* C1..C10                                                                 *)
(***************************************************************************)

\* C1: for every input text parse_data returns normally; no exception ever
\* propagates to the caller, in either parser.
C1_NoExceptionPropagates ==
    /\ pcF \in {"loop", "returned"}
    /\ pcG \in {"loop", "returned"}

\* C2: when a section name heads two blocks, the records attributed to it
\* after the pass are as many as the valid data lines of all its blocks, in
\* flat mode and in grouped mode.
C2_RepeatedSectionAccumulates ==
    /\ pcF = "returned" =>
         \A n \in RepeatedNames :
            Cardinality({k \in 1..Len(all_data) : all_data[k].search = n})
               = Cardinality(FlatValidUnder(n))
    /\ pcG = "returned" =>
         \A n \in RepeatedNames :
            Len(algorithms[n]) = Cardinality(GroupedValidUnder(n))

\* C2, the flat half alone: criar_csv counts every block of a repeated name.
C2_FlatAccumulates ==
    pcF = "returned" =>
       \A n \in RepeatedNames :
          Cardinality({k \in 1..Len(all_data) : all_data[k].search = n})
             = Cardinality(FlatValidUnder(n))

\* C3: a well-formed line '<int> nodes | <int> goal | <number> cost |
\* <int> actions | <label>' inside a section adds exactly one record with
\* those values and that label, in both parsers.
C3_WellFormedLineYieldsRecord ==
    [][/\ (FlatStep /\ FlatAtDataLine) =>
            \A w \in WellFormed :
               LineAt(fi) = Strip(RenderRow(w)) =>
                  all_data' = Append(all_data,
                     [nodes |-> w.nodes, goal |-> w.goal, cost |-> Normal(w.cost, 0),
                      actions |-> w.actions, problem |-> w.label,
                      search |-> current_algorithm])
       /\ (GroupedStep /\ GroupedAtDataLine) =>
            \A w \in WellFormed :
               LineAt(gi) = Strip(RenderRow(w)) =>
                  /\ current_algorithm_g \in DOMAIN algorithms
                  /\ algorithms' = [algorithms EXCEPT ![current_algorithm_g] =
                                       Append(@, ExpectedRecord(w))]
      ]_vars

\* C3, the flat half alone: criar_csv reads a well-formed line as claimed.
C3_FlatWellFormedLineYieldsRecord ==
    [][(FlatStep /\ FlatAtDataLine) =>
          \A w \in WellFormed :
             LineAt(fi) = Strip(RenderRow(w)) =>
                all_data' = Append(all_data,
                   [nodes |-> w.nodes, goal |-> w.goal, cost |-> Normal(w.cost, 0),
                    actions |-> w.actions, problem |-> w.label,
                    search |-> current_algorithm])
      ]_vars

\* C4: every record of the flat output carries as 'search' the name of the
\* most recent header line before the record's source line, in every state
\* of the pass.
C4_RecordCarriesItsSection ==
    /\ Len(origin) = Len(all_data)
    /\ \A k \in 1..Len(all_data) : all_data[k].search = SectionAt(origin[k])

\* C4's case: a record under the second of two different headers
C4_Witness ==
    \E k \in 1..Len(all_data) :
       \E h \in HeadersBefore(origin[k]) :
          SubSeq(LineAt(h), 1, Len(LineAt(h)) - 1) # all_data[k].search

\* C5: records stand in the flat output in the order of their source lines:
\* of two records, the one from the earlier line has the smaller position.
C5_SourceOrderPreserved ==
    /\ Len(origin) = Len(all_data)
    /\ \A k1, k2 \in 1..Len(all_data) : k1 < k2 => origin[k1] < origin[k2]
    /\ \A k \in 1..Len(all_data) :
          LET out == FlatParseLine(LineAt(origin[k]))
          IN  /\ origin[k] < fi
              /\ out.kind = "record"
              /\ all_data[k].problem = out.rec.problem
              /\ all_data[k].nodes = out.rec.nodes

\* C5's case: two different records, from two lines, in the output
C5_Witness ==
    \E k1, k2 \in 1..Len(all_data) : k1 < k2 /\ all_data[k1].nodes # all_data[k2].nodes

C6_ValueErrorDiscardsLine ==
    [][(FlatStep /\ FlatAtDataLine /\ FlatParseLine(LineAt(fi)).kind = "ValueError") =>
          /\ all_data' = all_data
          /\ current_algorithm' = current_algorithm
          /\ fi' = fi + 1
          /\ pcF' = "loop"
      ]_vars

\* C7: a non-header line inside a section with fewer than 5 '|'-separated
\* fields is dropped: no record is added, the current section name stays,
\* and the loop goes on to the next line, in both parsers.
C7_ShortLineDropped ==
    [][/\ (FlatStep /\ FlatAtDataLine /\ FieldCount(LineAt(fi)) < 5) =>
            /\ all_data' = all_data
            /\ current_algorithm' = current_algorithm
            /\ fi' = fi + 1
            /\ pcF' = "loop"
       /\ (GroupedStep /\ GroupedAtDataLine /\ FieldCount(LineAt(gi)) < 5) =>
            /\ algorithms' = algorithms
            /\ current_algorithm_g' = current_algorithm_g
            /\ gi' = gi + 1
            /\ pcG' = "loop"
      ]_vars

\* C7's case: both loops have passed a four-field line inside a section
C7_Witness ==
    /\ \E j \in 1..(fi - 1) : DataLine(j) /\ FieldCount(LineAt(j)) < 5
    /\ \E j \in 1..(gi - 1) : DataLine(j) /\ FieldCount(LineAt(j)) < 5
    /\ pcF = "returned" /\ pcG = "returned"

\* C8: while no header line has been processed the output is empty, so a
\* data line before any header is dropped and a text of such lines alone
\* gives an output of length zero, in both parsers.
C8_NothingBeforeFirstHeader ==
    /\ HeadersBefore(fi) = {} => all_data = <<>>
    /\ HeadersBefore(gi) = {} => DOMAIN algorithms = {}

\* C8's case: both loops are through a text that holds a line either parser
\* would take as a record, and no header
C8_Witness ==
    /\ pcF = "returned" /\ pcG = "returned"
    /\ HeadersBefore(Len(lines) + 1) = {}
    /\ \E j \in 1..Len(lines) :
          /\ FieldCount(LineAt(j)) = 5
          /\ ~FlatConversionFails(LineAt(j))
          /\ GroupedParseLine(LineAt(j)).kind = "record"

\* C9: the problem label of an emitted record is everything from field 4 to
\* the end of the line, rejoined (field 4 trimmed when there are exactly 5
\* fields), in both parsers.
C9_LabelIsRestOfLine ==
    [][/\ (FlatStep /\ Len(all_data') = Len(all_data) + 1) =>
            all_data'[Len(all_data')].problem = LabelFromField4(LineAt(fi))
       /\ (GroupedStep /\ GroupedAtDataLine
             /\ current_algorithm_g \in DOMAIN algorithms
             /\ Len(algorithms'[current_algorithm_g])
                  = Len(algorithms[current_algorithm_g]) + 1) =>
            LET bucket == algorithms'[current_algorithm_g]
            IN  bucket[Len(bucket)].problem = LabelFromField4(LineAt(gi))
      ]_vars

\* C9, for lines of exactly 5 fields: the label is field 4 trimmed.
C9_FiveFieldLabelIsField4 ==
    [][/\ (FlatStep /\ Len(all_data') = Len(all_data) + 1
             /\ FieldCount(LineAt(fi)) = 5) =>
            all_data'[Len(all_data')].problem = LabelFromField4(LineAt(fi))
       /\ (GroupedStep /\ GroupedAtDataLine
             /\ current_algorithm_g \in DOMAIN algorithms
             /\ Len(algorithms'[current_algorithm_g])
                  = Len(algorithms[current_algorithm_g]) + 1
             /\ FieldCount(LineAt(gi)) = 5) =>
            LET bucket == algorithms'[current_algorithm_g]
            IN  bucket[Len(bucket)].problem = LabelFromField4(LineAt(gi))
      ]_vars

\* C10: a non-numeric entry of the typed list is left out of the selection
\* without failure: the script does not end in an exception, the in-range
\* numbers typed beside it are selected, and the charts are drawn.
C10_NonNumericEntrySkipped ==
    LET ints == EntryInts(selected_problems_str)
        numeric == SelectSeq(ints, LAMBDA r : r.ok)
        numbers == [i \in 1..Len(numeric) |-> numeric[i].val - 1]
    IN  (pcE \in {"filter", "chart", "done", "ValueError"}
           /\ \E i \in 1..Len(ints) : ~ints[i].ok) =>
          /\ pcE # "ValueError"
          /\ pcE \in {"chart", "done"} =>
               selected_problems = SelectInRange(available_problems, numbers)

(***************************************************************************)
(* C11..C18                                                                *)
(***************************************************************************)

\* The first row of column col that holds value x
FirstRow(col, x) == CHOOSE i \in 1..Len(col) : col[i] = x /\ \A j \in 1..(i - 1) : col[j] # x

\* list is the distinct values of col in the order of their first rows
FirstSeenOrder(list, col) ==
    /\ {list[i] : i \in 1..Len(list)} = {col[i] : i \in 1..Len(col)}
    /\ \A i, j \in 1..Len(list) : i < j => FirstRow(col, list[i]) < FirstRow(col, list[j])

\* C11: the numbers typed are 1-based positions in the first-seen-order list
\* of distinct problems; a list of numbers is never refused, and the
\* selection is exactly the problems at the numbers within 1..N, in the order
\* typed: 0, negative and too large numbers select nothing.
C11_SelectionIsInRangeIndices ==
    LET ints == EntryInts(selected_problems_str)
        typed == [i \in 1..Len(ints) |-> ints[i].val]
        N == Len(available_problems)
        inRange == SelectSeq(typed, LAMBDA v : 1 <= v /\ v <= N)
    IN  /\ pcE \notin {"load"} => FirstSeenOrder(available_problems, problem_column)
        /\ (pcE \notin {"load", "prompt", "parse"} /\ \A i \in 1..Len(ints) : ints[i].ok) =>
              pcE # "ValueError"
        /\ pcE \in {"chart", "done"} =>
              /\ Len(selected_problems) = Len(inRange)
              /\ \A k \in 1..Len(inRange) :
                    selected_problems[k] = available_problems[inRange[k]]
        /\ pcE = "done" => charted = selected_problems

\* C11's case: charts are done for a typed list that holds a number in range
\* and a number that is 0 or negative, with two problems to choose from
C11_Witness ==
    LET ints == EntryInts(selected_problems_str)
    IN  /\ pcE = "done"
        /\ Len(available_problems) = 2
        /\ \E i \in 1..Len(ints) : ints[i].ok /\ ints[i].val <= 0
        /\ \E i \in 1..Len(ints) : ints[i].ok /\ ints[i].val >= 1 /\ ints[i].val <= 2
        /\ Len(selected_problems) = 1

\* A count is not below zero; a cost is a real number not below zero, or +inf
NonNegativeRecord(rec) ==
    /\ rec.nodes >= 0 /\ rec.goal >= 0 /\ rec.actions >= 0
    /\ \/ rec.cost.k = "fin" /\ rec.cost.m >= 0
       \/ rec.cost = PosInf

\* C12: for every input text, every record of the output has nodes, goal and
\* actions that are integers not below zero, and a cost that is a real number
\* not below zero or the unbounded sentinel.
C12_RecordsNonNegative ==
    /\ \A k \in 1..Len(all_data) : NonNegativeRecord(all_data[k])
    /\ \A n \in DOMAIN algorithms :
          \A k \in 1..Len(algorithms[n]) : NonNegativeRecord(algorithms[n][k])

\* The first whitespace-delimited token of the cost field of a line of five
\* fields or more, <<>> when the field holds none
CostToken(line) ==
    LET toks == SplitWs(Strip(Split(line, "|")[3]))
    IN  IF toks = <<>> THEN <<>> ELSE toks[1]

\* A line of five fields or more whose three counts are numbers, with or
\* without their unit words
CountsValid(line) ==
    LET parts == Split(line, "|")
    IN  /\ Len(parts) >= 5
        /\ FlatInt(parts[1], W_NODES).ok
        /\ FlatInt(parts[2], W_GOAL).ok
        /\ FlatInt(parts[4], W_ACTIONS).ok

\* The record of such a line, with the given cost
RecordWithCost(line, cost) ==
    LET parts == Split(line, "|")
    IN  [nodes |-> FlatInt(parts[1], W_NODES).val, goal |-> FlatInt(parts[2], W_GOAL).val,
         cost |-> cost, actions |-> FlatInt(parts[4], W_ACTIONS).val,
         problem |-> Strip(parts[5])]

\* The flat loop reads a data line with valid counts: a cost token of 'inf'
\* gives a record with cost +inf, any other token is read as float() reads it
FlatCostRule ==
    (FlatAtDataLine /\ CountsValid(LineAt(fi)) /\ (fi' # fi \/ pcF' # pcF)) =>
        LET line == LineAt(fi)
            tok == CostToken(line)
        IN  /\ tok = INF =>
                all_data' = Append(all_data,
                    FlatRecord(RecordWithCost(line, PosInf), current_algorithm))
            /\ (tok \notin {INF, <<>>} /\ PyFloat(tok).ok) =>
                all_data' = Append(all_data,
                    FlatRecord(RecordWithCost(line, PyFloat(tok).val), current_algorithm))
            /\ (tok \notin {INF, <<>>} /\ ~PyFloat(tok).ok) => all_data' = all_data

\* The same for the grouped loop and the bucket of the current section
GroupedCostRule ==
    (GroupedAtDataLine /\ CountsValid(LineAt(gi)) /\ (gi' # gi \/ pcG' # pcG)) =>
        LET line == LineAt(gi)
            tok == CostToken(line)
        IN  /\ tok = INF =>
                algorithms' = AddToBucket(algorithms, current_algorithm_g,
                                          RecordWithCost(line, PosInf))
            /\ (tok \notin {INF, <<>>} /\ PyFloat(tok).ok) =>
                algorithms' = AddToBucket(algorithms, current_algorithm_g,
                                          RecordWithCost(line, PyFloat(tok).val))
            /\ (tok \notin {INF, <<>>} /\ ~PyFloat(tok).ok) => algorithms' = algorithms

\* C13: a data line whose cost field has 'inf' as its first token is no parse
\* failure: it gives a record with cost +inf and the other fields parsed as
\* usual; any other token is parsed as a real number.  In both parsers.
C13_InfCostYieldsSentinel == [][FlatCostRule /\ GroupedCostRule]_vars

\* The part of C13 that the flat parser keeps
C13_FlatInfCostYieldsSentinel == [][FlatCostRule]_vars

\* A flat record without its 'search' field
WithoutSearch(rec) ==
    [nodes |-> rec.nodes, goal |-> rec.goal, cost |-> rec.cost,
     actions |-> rec.actions, problem |-> rec.problem]

\* The flat records of one algorithm, in the order of the output
GroupOf(name) ==
    LET own == SelectSeq(all_data, LAMBDA rec : rec.search = name)
    IN  [k \in 1..Len(own) |-> WithoutSearch(own[k])]

\* The grouped parser's records of one section name
BucketOf(name) == IF name \in DOMAIN algorithms THEN algorithms[name] ELSE <<>>

\* C14: after both parsers have read the same text, the flat output grouped
\* by its algorithm field, order kept, holds for every section name the same
\* records in the same order as the grouped parser's bucket of that name.
C14_FlatGroupedAgree ==
    (pcF = "returned" /\ pcG = "returned") =>
        \A name \in DOMAIN algorithms \cup {all_data[k].search : k \in 1..Len(all_data)} :
            GroupOf(name) = BucketOf(name)

\* Sequence s is the beginning of sequence t
IsPrefix(s, t) == Len(s) <= Len(t) /\ SubSeq(t, 1, Len(s)) = s

RECURSIVE TotalOf(_, _)
\* The number of records in the buckets of the names
TotalOf(algos, names) ==
    IF names = {} THEN 0
    ELSE LET n == CHOOSE x \in names : TRUE
         IN  Len(algos[n]) + TotalOf(algos, names \ {n})

\* C15: a record, once produced, is never deleted or changed, in the flat
\* output and in the buckets of the grouped output: every step keeps what was
\* there and only appends, and the number of records never goes down.
C15_RecordsNeverDeleted ==
    [][/\ IsPrefix(all_data, all_data')
       /\ \A n \in DOMAIN algorithms :
             n \in DOMAIN algorithms' /\ IsPrefix(algorithms[n], algorithms'[n])
       /\ TotalOf(algorithms, DOMAIN algorithms) <= TotalOf(algorithms', DOMAIN algorithms')
      ]_vars

\* The part of C15 that the flat parser keeps
C15_FlatRecordsNeverDeleted == [][IsPrefix(all_data, all_data')]_vars

\* The flat loop reads a header: the text before the colon is the current
\* section from then on
FlatHeaderRule ==
    (pcF = "loop" /\ fi <= Len(lines) /\ fi' # fi /\ EndsWith(LineAt(fi), <<":">>)) =>
        current_algorithm' = SubSeq(LineAt(fi), 1, Len(LineAt(fi)) - 1)

GroupedHeaderRule ==
    (pcG = "loop" /\ gi <= Len(lines) /\ gi' # gi /\ EndsWith(LineAt(gi), <<":">>)) =>
        current_algorithm_g' = SubSeq(LineAt(gi), 1, Len(LineAt(gi)) - 1)

\* Line j is a non-empty line that is no header
BodyLine(j) == LineAt(j) # <<>> /\ ~EndsWith(LineAt(j), <<":">>)

\* The flat loop reads a line that follows a header with a name in `names`
\* and that parses: its record is emitted under the header's name
FlatLineRule(names) ==
    (/\ pcF = "loop" /\ fi <= Len(lines) /\ (fi' # fi \/ pcF' # pcF)
     /\ BodyLine(fi) /\ SectionAt(fi) \in names
     /\ FlatParseLine(LineAt(fi)).kind = "record") =>
        all_data' = Append(all_data, FlatRecord(FlatParseLine(LineAt(fi)).rec, SectionAt(fi)))

GroupedLineRule(names) ==
    (/\ pcG = "loop" /\ gi <= Len(lines) /\ (gi' # gi \/ pcG' # pcG)
     /\ BodyLine(gi) /\ SectionAt(gi) \in names
     /\ GroupedParseLine(LineAt(gi)).kind = "record") =>
        algorithms' = AddToBucket(algorithms, SectionAt(gi), GroupedParseLine(LineAt(gi)).rec)

\* The section names of the text, the empty name among them
SectionNames == {SectionAt(j) : j \in 2..(Len(lines) + 1)} \ {None}

\* C16: a non-empty trimmed line that ends with a colon makes the text before
\* the colon the current section, and the non-empty non-header lines after it
\* are taken as data lines: those that parse are emitted under that name,
\* also under the empty name of the line ":".
C16_ColonLineOpensSection ==
    [][/\ FlatHeaderRule /\ GroupedHeaderRule
       /\ FlatLineRule(SectionNames) /\ GroupedLineRule(SectionNames)]_vars

\* The part of C16 that the code keeps: sections with a name that is not empty
C16_NamedSectionOpens ==
    [][/\ FlatHeaderRule /\ GroupedHeaderRule
       /\ FlatLineRule(SectionNames \ {<<>>}) /\ GroupedLineRule(SectionNames \ {<<>>})]_vars

\* The flat loop reads a line that ends with a colon, whatever else it
\* holds: no record, and the line without the colon is the current section
FlatHeaderFirst ==
    (pcF = "loop" /\ fi <= Len(lines) /\ (fi' # fi \/ pcF' # pcF)
     /\ EndsWith(LineAt(fi), <<":">>)) =>
        /\ all_data' = all_data
        /\ current_algorithm' = SubSeq(LineAt(fi), 1, Len(LineAt(fi)) - 1)

\* The grouped loop likewise: no bucket gains a record
GroupedHeaderFirst ==
    (pcG = "loop" /\ gi <= Len(lines) /\ (gi' # gi \/ pcG' # pcG)
     /\ EndsWith(LineAt(gi), <<":">>)) =>
        /\ \A n \in DOMAIN algorithms' :
              algorithms'[n] = <<>> \/ (n \in DOMAIN algorithms /\ algorithms'[n] = algorithms[n])
        /\ current_algorithm_g' = SubSeq(LineAt(gi), 1, Len(LineAt(gi)) - 1)

\* A record the flat loop appends carries the name of the last header read
FlatTaggedWithLastHeader ==
    (pcF = "loop" /\ fi <= Len(lines) /\ all_data' # all_data) =>
        /\ Len(all_data') = Len(all_data) + 1
        /\ all_data'[Len(all_data')].search = SectionAt(fi)
        /\ current_algorithm' = current_algorithm

\* A record the grouped loop appends goes to the bucket of the last header read
GroupedTaggedWithLastHeader ==
    (pcG = "loop" /\ gi <= Len(lines) /\ ~EndsWith(LineAt(gi), <<":">>)
     /\ algorithms' # algorithms) =>
        /\ \E rec \in {GroupedParseLine(LineAt(gi)).rec} :
              algorithms' = AddToBucket(algorithms, SectionAt(gi), rec)
        /\ current_algorithm_g' = current_algorithm_g

\* C17: the header test comes first: a line whose trimmed text ends with a
\* colon never gives a record, also when it would parse as a valid line of
\* five fields; the whole line without its last colon becomes the current
\* section, and the records that follow are tagged with it until the next
\* header.  In both parsers.
C17_HeaderTestTakesPrecedence ==
    [][/\ FlatHeaderFirst /\ GroupedHeaderFirst
       /\ FlatTaggedWithLastHeader /\ GroupedTaggedWithLastHeader]_vars

\* C17's case: inside section 'a' a line of five valid fields ends with a
\* colon; both parsers have returned, neither has a record of that line, and
\* both have a record of a later line under the name "5|2|3|4|X"
C17_Witness ==
    LET name == SubSeq(L_colon, 1, Len(L_colon) - 1)
    IN  /\ pcF = "returned" /\ pcG = "returned"
        /\ Len(lines) = 3 /\ LineAt(1) = H_a /\ LineAt(2) = L_colon
        /\ FlatParseLine(L_colon).kind = "record"
        /\ GroupedParseLine(L_colon).kind = "record"
        /\ Len(all_data) = 1 /\ all_data[1].search = name /\ origin = <<3>>
        /\ Len(BucketOf(name)) = 1 /\ BucketOf(<<"a">>) = <<>>

\* The non-blank, non-header lines that follow the first header
LinesAfterFirstHeader ==
    {j \in 1..Len(lines) : BodyLine(j) /\ HeadersBefore(j) # {}}

\* One iteration of the flat loop reads line fi and goes on to the next line;
\* it adds one record at most and changes the current section only at a
\* header; the loop returns after the last line, with no more records than
\* there are lines to take them from
FlatSinglePass ==
    /\ FlatStep =>
          /\ fi' = fi + 1 /\ pcF' = "loop"
          /\ Len(all_data') <= Len(all_data) + 1
          /\ current_algorithm' # current_algorithm => EndsWith(LineAt(fi), <<":">>)
    /\ FlatReturn =>
          /\ fi = Len(lines) + 1
          /\ Len(all_data) <= Cardinality(LinesAfterFirstHeader)

GroupedSinglePass ==
    /\ GroupedStep =>
          /\ gi' = gi + 1 /\ pcG' = "loop"
          /\ TotalOf(algorithms', DOMAIN algorithms')
                <= TotalOf(algorithms, DOMAIN algorithms) + 1
          /\ current_algorithm_g' # current_algorithm_g => EndsWith(LineAt(gi), <<":">>)
    /\ GroupedReturn =>
          /\ gi = Len(lines) + 1
          /\ TotalOf(algorithms, DOMAIN algorithms) <= Cardinality(LinesAfterFirstHeader)

\* C18: the parse is one pass over the lines, for every finite text: each
\* line is processed exactly once, in order, each line adds at most one
\* record, the current section changes only at a header, and the pass
\* completes with no more records than there are non-blank, non-header lines
\* after the first header.  In both parsers.
C18_SinglePassOverEveryLine == [][FlatSinglePass /\ GroupedSinglePass]_vars

=============================================================================
